---- MODULE Spec2Model ----
(***************************************************************************)
(* A model of lyza::json::parser (src/src/parser.hpp): the recursive       *)
(* descent productions as operators over a producer, and the public        *)
(* productions as the actions of a state machine that calls them on one    *)
(* producer.                                                               *)
(*                                                                         *)
(* producer.hpp and value.hpp are not part of the source tree; the         *)
(* producer and the value model are written from the specification         *)
(* (sections 3, 4.1, 4.2, 4.3 "Whitespace handling").                      *)
(*                                                                         *)
(* Characters are one-character strings, texts are sequences of them.      *)
(* Numbers are doubles (IEEE 754 binary64, round to nearest, ties to       *)
(* even), computed exactly.                                                *)
(***************************************************************************)
EXTENDS Integers, Sequences, FiniteSets, TLC

VARIABLES p, out

vars == <<p, out>>

(***************************************************************************)
(* Characters                                                              *)
(***************************************************************************)

\* What peek yields at end-of-stream: the "no character" sentinel.
EOFC == "EOF"

WS == {" ", "\t", "\r", "\n"}

Digits == {"0", "1", "2", "3", "4", "5", "6", "7", "8", "9"}

\* static_cast<int>(c) for the characters the model uses.
Code(c) ==
  CASE c = "\t" -> 9   [] c = "\n" -> 10  [] c = "\r" -> 13  [] c = " " -> 32
    [] c = "\"" -> 34  [] c = "+" -> 43   [] c = "," -> 44   [] c = "-" -> 45
    [] c = "." -> 46   [] c = "0" -> 48   [] c = "1" -> 49   [] c = "2" -> 50
    [] c = "3" -> 51   [] c = "4" -> 52   [] c = "5" -> 53   [] c = "6" -> 54
    [] c = "7" -> 55   [] c = "8" -> 56   [] c = "9" -> 57   [] c = ":" -> 58
    [] c = "E" -> 69   [] c = "[" -> 91   [] c = "\\" -> 92  [] c = "]" -> 93
    [] c = "a" -> 97   [] c = "b" -> 98   [] c = "e" -> 101  [] c = "f" -> 102
    [] c = "l" -> 108  [] c = "n" -> 110  [] c = "r" -> 114  [] c = "s" -> 115
    [] c = "t" -> 116  [] c = "u" -> 117  [] c = "x" -> 120  [] c = "{" -> 123
    [] c = "}" -> 125  [] OTHER -> -1

isdigit(c) == c \in Digits

DigitVal(c) == Code(c) - 48

(***************************************************************************)
(* Producer: [src, pos, line, col, skip, edge].  pos is the 1-based index  *)
(* of the next character of src; skip is the whitespace mode set by        *)
(* skip_ws; edge is the token boundary: where the producer stood right     *)
(* after the last character it consumed, before the whitespace it skipped  *)
(* after it.                                                               *)
(***************************************************************************)

Producer(src, skip) ==
  [src |-> src, pos |-> 1, line |-> 1, col |-> 1, skip |-> skip,
   edge |-> [pos |-> 1, line |-> 1, col |-> 1]]

AtEnd(q) == q.pos > Len(q.src)

\* Consuming one character moves the position: a newline starts a new line.
Advance(q) ==
  IF q.src[q.pos] = "\n"
    THEN [q EXCEPT !.pos = @ + 1, !.line = @ + 1, !.col = 1]
    ELSE [q EXCEPT !.pos = @ + 1, !.col = @ + 1]

RECURSIVE SkipRun(_)
\* Advance past a run of space/tab/CR/LF.
SkipRun(q) ==
  IF ~AtEnd(q) /\ q.src[q.pos] \in WS THEN SkipRun(Advance(q)) ELSE q

\* The token boundary is where the producer stands.
Edge(q) == [q EXCEPT !.edge = [pos |-> q.pos, line |-> q.line, col |-> q.col]]

\* skip_ws(true): whitespace is insignificant from here on; the run the
\* producer stands at is skipped now.
\* skip_ws(false): whitespace is content from here on, the run that follows
\* the token boundary included: the parser consumes the opening quote of a
\* string before it calls skip_ws(false) (lines 122-123), and the whitespace
\* right after that quote is string content (spec 4.1); the producer is back
\* at the boundary.
skip_ws(q, b) ==
  IF b THEN Edge(SkipRun([q EXCEPT !.skip = TRUE]))
  ELSE [q EXCEPT !.skip = FALSE, !.pos = q.edge.pos, !.line = q.edge.line,
                 !.col = q.edge.col]

\* True when no characters remain.
eof(q) == AtEnd(q)

\* The next character, not consumed; the sentinel at end-of-stream.
peekc(q) == IF eof(q) THEN EOFC ELSE q.src[q.pos]

\* The producer after it has consumed the character it stands at: in skip
\* mode the whitespace that follows is skipped immediately (spec 4.3).
Consumed(q) == IF q.skip THEN SkipRun(Edge(Advance(q))) ELSE Edge(Advance(q))

\* Consumes and returns the current character; fails at end-of-stream.
nextc(q) ==
  IF eof(q) THEN [ok |-> FALSE, c |-> EOFC, p |-> q]
            ELSE [ok |-> TRUE, c |-> peekc(q), p |-> Consumed(q)]

get_line(q) == q.line

get_column(q) == q.col

\* The characters not yet consumed.
Rest(q) == SubSeq(q.src, q.pos, Len(q.src))

\* Where a producer stands, without its text.
At(q) == [pos |-> q.pos, line |-> q.line, col |-> q.col, skip |-> q.skip]

(***************************************************************************)
(* Values                                                                  *)
(***************************************************************************)

NoVal == [t |-> "none"]

Null == [t |-> "null"]

Bool(b) == [t |-> "bool", b |-> b]

Str(s) == [t |-> "str", str |-> s]

Arr(a) == [t |-> "arr", arr |-> a]

Obj(o) == [t |-> "obj", obj |-> o]

\* A double.  A finite one is (-1)^neg * sig * 2^exp, where sig is a natural
\* number written in digits of base 32768, the least significant first
\* (<<3>> is 3, <<1, 2>> is 1 + 2 * 32768): an odd one, so that each double is
\* written in one way, or << >> for zero (with exp 0).
Finite(neg, sig, exp) ==
  [t |-> "num", cls |-> "finite", neg |-> neg, sig |-> sig, exp |-> exp]

\* +0.0 and -0.0.
Zero(neg) == Finite(neg, << >>, 0)

\* +inf and -inf.
Inf(neg) == [t |-> "num", cls |-> "inf", neg |-> neg, sig |-> << >>, exp |-> 0]

\* The NaN of 0 * inf; its sign bit is not kept.
NaN == [t |-> "num", cls |-> "nan", neg |-> FALSE, sig |-> << >>, exp |-> 0]

EmptyObj == << >>

\* o[key] = v: the key is added, or its value overwritten in place.
ObjSet(o, key, v) == [k \in (DOMAIN o) \cup {key} |-> IF k = key THEN v ELSE o[k]]

(***************************************************************************)
(* Outcomes of a production: a value, or a failure that unwinds.           *)
(***************************************************************************)

NoErr == [kind |-> "none"]

\* members is not part of the program: for an object just parsed it lists the
\* members of its text, in the order of the text.
Ok(q, v) == [st |-> "ok", p |-> q, val |-> v, err |-> NoErr, members |-> << >>]

Throw(q, e) == [st |-> "throw", p |-> q, val |-> NoVal, err |-> e, members |-> << >>]

\* The failure of the producer's next() at end-of-stream.
EndOfStream == [kind |-> "end_of_stream"]

\* std::stod on a text that holds no number.
InvalidArgument == [kind |-> "invalid_argument"]

\* std::stod on a number that no double holds.
OutOfRange == [kind |-> "out_of_range"]

\* A loop that is still running after more iterations than the stream has
\* characters (plus one) never ends.
Hang(q) == [st |-> "hang", p |-> q, val |-> NoVal, err |-> NoErr, members |-> << >>]

MaxIter(q) == Len(q.src) + 1

(***************************************************************************)
(* parse_error and the helpers of the parser                               *)
(***************************************************************************)

\* x under a local name: F(x).
With(x, F(_)) == F(x)

\* A failure unwinds: unless r is one, go on with K(r).
Then(r, K(_)) == IF r.st # "ok" THEN r ELSE K(r)

\* parse_error(p, what_arg): what_ is "<line>:<column>: <what_arg>\n", read
\* from the producer as it is when the error is constructed.  what_ is kept
\* as the sequence of its pieces.  seen is not part of the error: it records
\* where the producer stood at the offending character.
parse_error(q, what_arg, seen) ==
  [kind |-> "parse_error",
   what_ |-> <<ToString(get_line(q)), ":", ToString(get_column(q)), ": ">>
               \o what_arg \o <<"\n">>,
   seen |-> At(seen)]

RECURSIVE Drain(_, _, _)
\* while (!p.eof()) until_eof += p.nextc();
Drain(q, until_eof, n) ==
  IF n > MaxIter(q) THEN Hang(q)
  ELSE IF eof(q) THEN Ok(q, Str(until_eof))
  ELSE With(nextc(q), LAMBDA r : Drain(r.p, Append(until_eof, r.c), n + 1))

\* error(p, msg): drains the producer, then throws.
error(q, msg) ==
  Then(Drain(q, << >>, 0), LAMBDA d :
    Throw(d.p, parse_error(d.p, <<msg, "until_eof=\"">> \o d.val.str \o <<"\"">>, q)))

has(q, c) == peekc(q) = c

\* may_have(p, c) is has(p, c), and consumes the character when it is there.
may_have(q, c) == IF peekc(q) = c THEN nextc(q).p ELSE q

char_to_code(c) == ToString(Code(c))

\* std::string(c, 1) is the fill constructor: Code(c) copies of the character
\* with code 1, written here run-length encoded.
StringFill(c) == <<"\\x01", "*", char_to_code(c)>>

expects(q, c) ==
  With(nextc(q), LAMBDA r :
    IF ~r.ok THEN Throw(r.p, EndOfStream)
    ELSE IF r.c # c
      THEN Throw(r.p, parse_error(r.p,
                        <<"parse error: ", "'">> \o StringFill(c) \o <<"'", "(code=",
                          char_to_code(c), ")", "\texpected, got: ", "'">>
                        \o StringFill(r.c) \o <<"'", "' (code=", char_to_code(r.c), ")">>,
                        q))
    ELSE Ok(r.p, NoVal))

RECURSIVE match_string(_, _)
\* for (auto c : s) expects(p, c);
match_string(q, s) ==
  IF s = << >> THEN Ok(q, NoVal)
  ELSE Then(expects(q, Head(s)), LAMBDA r : match_string(r.p, Tail(s)))

(***************************************************************************)
(* parse_string                                                            *)
(***************************************************************************)

RECURSIVE StringLoopPeeks(_, _, _)
\* StringLoop with acc += p.peekc() for acc += p.nextc(): nothing is consumed.
StringLoopPeeks(q, acc, n) ==
  IF n > MaxIter(q) THEN Hang(q)
  ELSE IF has(q, "\"") THEN Ok(q, Str(acc))
  ELSE With(may_have(q, "\\"), LAMBDA r :
         StringLoopPeeks(r, Append(acc, peekc(r)), n + 1))

RECURSIVE StringLoop(_, _, _)
\* while (!has(p, '"')) { if (may_have(p, '\\')) acc += nextc; else acc += nextc; }
\* Yields the producer at the closing quote and acc.
StringLoop(q, acc, n) ==
  IF n > MaxIter(q) THEN Hang(q)
  ELSE IF has(q, "\"") THEN Ok(q, Str(acc))
  ELSE With(nextc(may_have(q, "\\")), LAMBDA r :
         IF ~r.ok THEN Throw(r.p, EndOfStream)
         ELSE StringLoop(r.p, Append(acc, r.c), n + 1))

\* parse_string with p.skip_ws(true) after the opening quote.
parse_string_skipping(q) ==
  Then(expects(q, "\""), LAMBDA open :
  Then(StringLoop(skip_ws(open.p, TRUE), << >>, 0), LAMBDA body :
  Then(expects(body.p, "\""), LAMBDA close :
  Ok(skip_ws(close.p, TRUE), body.val))))

\* parse_string without the p.skip_ws(true) after the closing quote.
parse_string_unrestored(q) ==
  Then(expects(q, "\""), LAMBDA open :
  Then(StringLoop(skip_ws(open.p, FALSE), << >>, 0), LAMBDA body :
  Then(expects(body.p, "\""), LAMBDA close :
  Ok(close.p, body.val))))

parse_string(q) ==
  Then(expects(q, "\""), LAMBDA open :
  Then(StringLoop(skip_ws(open.p, FALSE), << >>, 0), LAMBDA body :
  Then(expects(body.p, "\""), LAMBDA close :
  Ok(skip_ws(close.p, TRUE), body.val))))

(***************************************************************************)
(* parse_bool, parse_null                                                  *)
(***************************************************************************)

parse_bool(q) ==
  IF has(q, "t") THEN
    Then(match_string(q, <<"t", "r", "u", "e">>), LAMBDA r : Ok(r.p, Bool(TRUE)))
  ELSE IF has(q, "f") THEN
    Then(match_string(q, <<"f", "a", "l", "s", "e">>), LAMBDA r : Ok(r.p, Bool(FALSE)))
  ELSE error(q, "expected boolean")

parse_null(q) ==
  IF has(q, "n") THEN
    Then(match_string(q, <<"n", "u", "l", "l">>), LAMBDA r : Ok(r.p, Null))
  ELSE error(q, "expected null")

(***************************************************************************)
(* double arithmetic: natural numbers of any size, written in digits of    *)
(* base 32768 (the least significant first, the last one not 0, << >> for  *)
(* 0), and the rounding of a quotient of two of them to the nearest        *)
(* double.                                                                 *)
(***************************************************************************)

Base == 32768

Max(a, b) == IF a >= b THEN a ELSE b

Min(a, b) == IF a <= b THEN a ELSE b

\* Digit i of a (digit 1 is the least significant one).
LimbAt(a, i) == IF 1 <= i /\ i <= Len(a) THEN a[i] ELSE 0

\* a without its leading zeros.
Trim(a) ==
  IF \A i \in 1..Len(a) : a[i] = 0 THEN << >>
  ELSE SubSeq(a, 1, CHOOSE i \in 1..Len(a) :
                      a[i] # 0 /\ \A j \in (i + 1)..Len(a) : a[j] = 0)

RECURSIVE Limbs(_)
\* The digits of an integer n >= 0.
Limbs(n) == IF n = 0 THEN << >> ELSE <<n % Base>> \o Limbs(n \div Base)

\* The carry into digit i of a + b.
Carry(a, b, i) ==
  IF \E j \in 1..(i - 1) :
       /\ LimbAt(a, j) + LimbAt(b, j) >= Base
       /\ \A k \in (j + 1)..(i - 1) : LimbAt(a, k) + LimbAt(b, k) = Base - 1
    THEN 1
  ELSE 0

\* a + b.
Sum(a, b) ==
  IF a = << >> THEN b
  ELSE IF b = << >> THEN a
  ELSE Trim([i \in 1..(Max(Len(a), Len(b)) + 1) |->
         (LimbAt(a, i) + LimbAt(b, i) + Carry(a, b, i)) % Base])

\* The borrow from digit i of a - b.
Borrow(a, b, i) ==
  IF \E j \in 1..(i - 1) :
       /\ LimbAt(a, j) < LimbAt(b, j)
       /\ \A k \in (j + 1)..(i - 1) : LimbAt(a, k) = LimbAt(b, k)
    THEN 1
  ELSE 0

\* a - b, for a >= b.
Diff(a, b) ==
  IF b = << >> THEN a
  ELSE Trim([i \in 1..Len(a) |->
         (LimbAt(a, i) - LimbAt(b, i) - Borrow(a, b, i) + Base) % Base])

\* a < b.
Less(a, b) ==
  IF Len(a) # Len(b) THEN Len(a) < Len(b)
  ELSE \E i \in 1..Len(a) : a[i] < b[i] /\ \A k \in (i + 1)..Len(a) : a[k] = b[k]

\* a * k, for 0 <= k < Base: the low halves of the digit products, plus the
\* high halves one place up.
MulSmall(a, k) ==
  IF a = << >> \/ k = 0 THEN << >>
  ELSE Sum([i \in 1..Len(a) |-> (a[i] * k) % Base],
      <<0>> \o [i \in 1..Len(a) |-> (a[i] * k) \div Base])

\* a * Base^k.
ShiftLimbs(a, k) == IF a = << >> THEN a ELSE [i \in 1..k |-> 0] \o a

RECURSIVE TimesRange(_, _, _, _)
\* (the digits lo..hi of a, each in its place, as a number) * b.
TimesRange(a, b, lo, hi) ==
  IF lo > hi THEN << >>
  ELSE IF lo = hi THEN ShiftLimbs(MulSmall(b, a[lo]), lo - 1)
  ELSE Sum(TimesRange(a, b, lo, (lo + hi) \div 2),
           TimesRange(a, b, (lo + hi) \div 2 + 1, hi))

\* a * b.
Times(a, b) == IF a = << >> \/ b = << >> THEN << >> ELSE TimesRange(a, b, 1, Len(a))

Square(a) == Times(a, a)

RECURSIVE Pow10(_)
\* 10^k.
Pow10(k) ==
  IF k = 0 THEN <<1>>
  ELSE IF k % 2 = 0 THEN Square(Pow10(k \div 2))
  ELSE MulSmall(Square(Pow10(k \div 2)), 10)

RECURSIVE Decimal(_)
\* The number that the decimal digits s write.
Decimal(s) ==
  IF s = << >> THEN << >>
  ELSE IF Len(s) = 1 THEN Limbs(DigitVal(s[1]))
  ELSE Sum(Times(Decimal(SubSeq(s, 1, Len(s) \div 2)), Pow10(Len(s) - Len(s) \div 2)),
           Decimal(SubSeq(s, Len(s) \div 2 + 1, Len(s))))

\* The number of bits of a digit n > 0.
SmallBitLen(n) == CHOOSE k \in 1..15 : 2 ^ (k - 1) <= n /\ n < 2 ^ k

\* The number of bits of a.
BitLen(a) == IF a = << >> THEN 0 ELSE 15 * (Len(a) - 1) + SmallBitLen(a[Len(a)])

\* Bit i of a (bit 1 is the least significant one).
BitAt(a, i) ==
  IF i < 1 THEN 0 ELSE (LimbAt(a, (i - 1) \div 15 + 1) \div (2 ^ ((i - 1) % 15))) % 2

\* a * 2^k.
ShlBits(a, k) == ShiftLimbs(MulSmall(a, 2 ^ (k % 15)), k \div 15)

\* The digits of high, each with the bits of the next one that a division
\* by low, a power of 2, brings down.
ShrSmall(high, low) ==
  Trim([i \in 1..Len(high) |->
         high[i] \div low + (LimbAt(high, i + 1) % low) * (Base \div low)])

\* a \div 2^k.
ShrBits(a, k) ==
  ShrSmall(IF k \div 15 >= Len(a) THEN << >> ELSE SubSeq(a, k \div 15 + 1, Len(a)),
           2 ^ (k % 15))

RECURSIVE Fit(_, _, _)
\* The largest t at most guess with d * t <= r.
Fit(r, d, guess) == IF Less(r, MulSmall(d, guess)) THEN Fit(r, d, guess - 1) ELSE guess

\* The digit of the quotient of left by d, whose leading digit is Base / 2
\* or more, for left < d * Base: at most the two leading digits of left
\* divided by the leading digit of d.
DivDigit(left, d) ==
  Fit(left, d,
      Min(Base - 1,
          (LimbAt(left, Len(d) + 1) * Base + LimbAt(left, Len(d))) \div d[Len(d)]))

RECURSIVE DivFrom(_, _, _, _, _)
\* Long division of a by d: digit is the digit i of the quotient, q its
\* digits above, and left what is divided at this step.
DivPut(a, d, i, q, left, digit) ==
  DivFrom(a, d, i - 1, <<digit>> \o q, Diff(left, MulSmall(d, digit)))

DivNext(a, d, i, q, left) == DivPut(a, d, i, q, left, DivDigit(left, d))

\* Long division of a by d: the digits of a from i down are still to bring
\* down, q is the quotient of the others and r < d what they leave.
DivFrom(a, d, i, q, r) ==
  IF i = 0 THEN [q |-> Trim(q), exact |-> r = << >>]
  ELSE DivNext(a, d, i, q, Trim(<<a[i]>> \o r))

\* num \div den, and whether den divides num, for den whose leading digit
\* is Base / 2 or more.
Divide(num, den) ==
  IF Len(num) < Len(den) THEN [q |-> << >>, exact |-> num = << >>]
  ELSE DivFrom(num, den, Len(num) - Len(den) + 1, << >>,
               SubSeq(num, Len(num) - Len(den) + 2, Len(num)))

\* a \div d, and whether d divides a, for d > 0: a and d are scaled by the
\* power of 2 that makes the leading digit of d Base / 2 or more.
DivMod(a, d) ==
  IF d = <<1>> THEN [q |-> a, exact |-> TRUE]
  ELSE Divide(ShlBits(a, 15 - SmallBitLen(d[Len(d)])),
              ShlBits(d, 15 - SmallBitLen(d[Len(d)])))

\* The lowest bit of m > 0 that is 1.
LowestBit(m) ==
  CHOOSE i \in 1..BitLen(m) : BitAt(m, i) = 1 /\ \A j \in 1..(i - 1) : BitAt(m, j) = 0

\* The finite double (-1)^neg * m * 2^e, for m > 0.
Odd(neg, m, e) == Finite(neg, ShrBits(m, LowestBit(m) - 1), e + LowestBit(m) - 1)

\* The double (-1)^neg * m * 2^e of a rounding, 2^1024 and above being inf.
Rounded(neg, m, e, inexact, tiny) ==
  [val |-> IF m = << >> THEN Zero(neg)
           ELSE IF BitLen(m) + e > 1024 THEN Inf(neg)
           ELSE Odd(neg, m, e),
   inexact |-> inexact,
   tiny |-> tiny]

\* kept rounded to nearest, ties to even: half is the first bit dropped,
\* rest says that there is a 1 below it.
RoundUp(neg, kept, half, rest, e, tiny) ==
  Rounded(neg, IF half /\ (rest \/ BitAt(kept, 1) = 1) THEN Sum(kept, <<1>>) ELSE kept,
          e, half \/ rest, tiny)

\* Tininess is taken after rounding: (q + x) * 2^e, rounded to 53 bits
\* whatever its exponent, is below 2^-1022.  Just below 2^-1022 that
\* rounding gives 2^-1022 when the 54 leading bits of q are 1.
Tiny(q, e) ==
  \/ e + BitLen(q) < -1022
  \/ /\ e + BitLen(q) = -1022
     /\ \E i \in (BitLen(q) - 53)..BitLen(q) : BitAt(q, i) = 0

\* q without its drop lowest bits, rounded.
RoundOff(neg, q, more, e, drop) ==
  RoundUp(neg, ShrBits(q, drop), BitAt(q, drop) = 1,
          more \/ \E i \in 1..Min(drop - 1, BitLen(q)) : BitAt(q, i) = 1,
          e + drop, Tiny(q, e))

\* The double nearest to (-1)^neg * (q + x) * 2^e, where q has 55 bits or
\* more, 0 <= x < 1 and more says that x > 0.  The result keeps the 53
\* leading bits of q, or the bits at 2^-1074 and above when that is fewer (a
\* subnormal); what is dropped rounds to nearest, ties to even; 2^1024 and
\* above is inf.  inexact: something was dropped; tiny: the value, rounded
\* to 53 bits, is below 2^-1022.
RoundAt(neg, q, more, e) == RoundOff(neg, q, more, e, Max(e + BitLen(q) - 53, -1074) - e)

\* The double nearest to (-1)^neg * (a / d) * 2^e, for the quotient dm of a
\* by d, of 55 bits or more.
RoundQuot(neg, dm, e) == RoundAt(neg, dm.q, ~dm.exact, e)

\* The double nearest to (-1)^neg * (n / d) * 2^e, by the quotient of
\* n * 2^up by d.
RoundScaled(neg, n, d, e, up) == RoundQuot(neg, DivMod(ShlBits(n, up), d), e - up)

\* The double nearest to (-1)^neg * (n / d) * 2^e, for d > 0.  An integer of
\* 53 bits or fewer times a power of 2, 2^-1022 or more and below 2^1024, is
\* a double as it stands.
Round(neg, n, d, e) ==
  IF n = << >> THEN [val |-> Zero(neg), inexact |-> FALSE, tiny |-> FALSE]
  ELSE IF d = <<1>> /\ BitLen(n) <= 53 /\ e >= -1022 /\ BitLen(n) + e <= 1024
    THEN [val |-> Odd(neg, n, e), inexact |-> FALSE, tiny |-> FALSE]
  ELSE RoundScaled(neg, n, d, e, Max(0, 56 + BitLen(d) - BitLen(n)))

(***************************************************************************)
(* parse_number                                                            *)
(***************************************************************************)

RECURSIVE DigitLoop(_, _, _)
\* while (isdigit(p.peekc())) num += p.nextc();
DigitLoop(q, num, n) ==
  IF n > MaxIter(q) THEN Hang(q)
  ELSE IF isdigit(peekc(q))
    THEN With(nextc(q), LAMBDA r : DigitLoop(r.p, Append(num, r.c), n + 1))
  ELSE Ok(q, Str(num))

\* The number of characters of s after its '.', 0 when it has none.
FracLen(s) ==
  IF \E i \in 1..Len(s) : s[i] = "." THEN Len(s) - (CHOOSE i \in 1..Len(s) : s[i] = ".")
  ELSE 0

\* strtod's result r as std::stod's: std::out_of_range when strtod reports
\* ERANGE (the number is too large for a double, or it is not a double and,
\* rounded to 53 bits, is below the normal doubles).
StodResult(r) ==
  IF r.val.cls = "inf" \/ (r.tiny /\ r.inexact) THEN [err |-> OutOfRange, num |-> NoVal]
  ELSE [err |-> NoErr, num |-> r.val]

\* std::stod(s) for s of digits with at most one '.': the double nearest to
\* the number it denotes, the digits of s as a number over 10 to the number
\* of them after the '.'; std::invalid_argument when s holds no digit.
stod(s) ==
  IF s = << >> \/ ~isdigit(Head(s)) THEN [err |-> InvalidArgument, num |-> NoVal]
  ELSE StodResult(Round(FALSE, Decimal(SelectSeq(s, isdigit)), Pow10(FracLen(s)), 0))

\* Lines 222-227: the optional '-'.
NumberSign(q) ==
  IF has(q, "-") THEN [neg |-> TRUE, p |-> nextc(q).p] ELSE [neg |-> FALSE, p |-> q]

\* Lines 229-241: the integer part.
NumberInt(q) ==
  IF has(q, "0") THEN With(nextc(q), LAMBDA r : Ok(r.p, Str(<<r.c>>)))
  ELSE IF Code("0") < Code(peekc(q)) /\ Code(peekc(q)) <= Code("9")
    THEN With(nextc(q), LAMBDA r : DigitLoop(r.p, <<r.c>>, 0))
  ELSE error(q, "expected number")

\* Lines 243-251: the '.' and the digit that must follow it.
NumberFrac(q, num) ==
  IF has(q, ".") THEN
    With(nextc(q), LAMBDA dot :
      IF isdigit(peekc(dot.p))
        THEN With(nextc(dot.p), LAMBDA r : Ok(r.p, Str(num \o <<dot.c, r.c>>)))
      ELSE error(dot.p, "expected number"))
  ELSE Ok(q, Str(num))

\* The integer that the double dexp of a run of digits holds, or 400 when
\* it is more than that.
Exponent(dexp) ==
  IF dexp.sig = << >> THEN 0
  ELSE IF BitLen(dexp.sig) + dexp.exp > 9 THEN 400
  ELSE Min(400, dexp.sig[1] * (2 ^ dexp.exp))

\* The double next above a normal double v > 0.
Above(v) ==
  Odd(v.neg, Sum(ShlBits(v.sig, 53 - BitLen(v.sig)), <<1>>), v.exp - (53 - BitLen(v.sig)))

\* std::pow(10, k) for an integer k: the double nearest to the power of
\* ten; inf above the doubles (10^309 and up), 0 below them (10^-324 and
\* down).  std::pow need not round to nearest: the pow of glibc 2.36 on
\* x86-64 gives the double above the nearest one for 10^23 (which lies half
\* way between two doubles) and for 10^210.
pow(k) ==
  IF k < -323 THEN Zero(FALSE)
  ELSE IF k < 0 THEN Round(FALSE, <<1>>, Pow10(-k), 0).val
  ELSE IF k > 308 THEN Inf(FALSE)
  ELSE IF k \in {23, 210} THEN Above(Round(FALSE, Pow10(k), <<1>>, 0).val)
  ELSE Round(FALSE, Pow10(k), <<1>>, 0).val

\* std::pow(10, (op == '-' ? -1. : 1.) * dexp).
pow10(op, dexp) == pow(IF op = "-" THEN -Exponent(dexp) ELSE Exponent(dexp))

\* a * b of two doubles: the double nearest to the product.
Mul(a, b) ==
  IF a.cls = "nan" \/ b.cls = "nan" THEN NaN
  ELSE IF a.cls = "inf" \/ b.cls = "inf" THEN
    (IF (a.cls = "finite" /\ a.sig = << >>) \/ (b.cls = "finite" /\ b.sig = << >>)
       THEN NaN
     ELSE Inf(a.neg # b.neg))
  ELSE Round(a.neg # b.neg, Times(a.sig, b.sig), <<1>>, a.exp + b.exp).val

\* -d.
Neg(d) == IF d.cls = "nan" THEN d ELSE [d EXCEPT !.neg = ~d.neg]

\* Lines 273-275: dnum * std::pow(10, (op == '-' ? -1. : 1.) * dexp), two
\* roundings: of the power, and of the product.
TimesPow10(dnum, op, dexp) == Mul(dnum, pow10(op, dexp))

\* Lines 268-275: the digits of the exponent, and its use.
NumberExpDigits(q, op, dnum) ==
  Then(DigitLoop(q, << >>, 0), LAMBDA exp :
    With(stod(exp.val.str), LAMBDA x :
      IF x.err # NoErr THEN Throw(exp.p, x.err)
      ELSE Ok(exp.p, TimesPow10(dnum, op, x.num))))

\* Lines 260-276: the exponent, applied to dnum by a multiplication.
NumberExp(q, dnum) ==
  IF has(q, "e") \/ has(q, "E") THEN
    With(nextc(q).p, LAMBDA mark :
      IF has(mark, "-") \/ has(mark, "+")
        THEN With(nextc(mark), LAMBDA op : NumberExpDigits(op.p, op.c, dnum))
      ELSE NumberExpDigits(mark, "+", dnum))
  ELSE Ok(q, dnum)

parse_number(q) ==
  With(NumberSign(q), LAMBDA sign :
  Then(NumberInt(sign.p), LAMBDA int :
  Then(NumberFrac(int.p, int.val.str), LAMBDA frac :
  Then(DigitLoop(frac.p, frac.val.str, 0), LAMBDA more :
  With(stod(more.val.str), LAMBDA dnum :
  IF dnum.err # NoErr THEN Throw(more.p, dnum.err)
  ELSE Then(NumberExp(more.p, dnum.num), LAMBDA full :
       Ok(full.p, IF sign.neg THEN Neg(full.val) ELSE full.val)))))))

(***************************************************************************)
(* parse_array, parse_object, parse_value, parse                           *)
(***************************************************************************)

RECURSIVE parse_value(_)
RECURSIVE ArrayLoop(_, _, _)
RECURSIVE ObjectLoop(_, _, _, _)

\* Lines 175-183: while (more) { a.push_back(parse_value(p)); more = has ','; }
ArrayLoop(q, a, n) ==
  IF n > MaxIter(q) THEN Hang(q)
  ELSE Then(parse_value(q), LAMBDA v :
         IF has(v.p, ",")
           THEN ArrayLoop(nextc(v.p).p, Append(a, v.val), n + 1)
         ELSE Ok(v.p, Arr(Append(a, v.val))))

parse_array(q) ==
  Then(expects(q, "["), LAMBDA open :
    IF has(open.p, "]") THEN Ok(nextc(open.p).p, Arr(<< >>))
    ELSE Then(ArrayLoop(open.p, << >>, 0), LAMBDA body :
         Then(expects(body.p, "]"), LAMBDA close : Ok(close.p, body.val))))

\* o.insert({key, v}) for o[key] = v: a key that is there keeps its value.
AssignIfAbsent(o, key, v) == IF key \in DOMAIN o THEN o ELSE ObjSet(o, key, v)

\* Line 205: o[key] = parse_value(p), once the value is parsed.
Assign(o, key, v) == ObjSet(o, key, v)

\* Lines 206-210: more = has ','; the loop goes on, or ends with the object.
ObjectMore(q, o, members, n) ==
  IF has(q, ",") THEN ObjectLoop(nextc(q).p, o, members, n + 1)
  ELSE [Ok(q, Obj(o)) EXCEPT !.members = members]

\* Lines 200-214: while (more) { key, ':', o[key] = value; more = has ','; }
ObjectLoop(q, o, members, n) ==
  IF n > MaxIter(q) THEN Hang(q)
  ELSE IF has(q, "\"") THEN
    Then(parse_string(q), LAMBDA key :
    Then(expects(key.p, ":"), LAMBDA colon :
    Then(parse_value(colon.p), LAMBDA v :
    ObjectMore(v.p, Assign(o, key.val.str, v.val),
               Append(members, [key |-> key.val.str, val |-> v.val]), n))))
  ELSE error(q, "expected key")

parse_object(q) ==
  Then(expects(q, "{"), LAMBDA open :
    IF has(open.p, "}") THEN Ok(nextc(open.p).p, Obj(EmptyObj))
    ELSE Then(ObjectLoop(open.p, EmptyObj, << >>, 0), LAMBDA body :
         Then(expects(body.p, "}"), LAMBDA close :
         [Ok(close.p, body.val) EXCEPT !.members = body.members])))

parse_value(q) ==
  IF has(q, "\"") THEN parse_string(q)
  ELSE IF has(q, "[") THEN parse_array(q)
  ELSE IF has(q, "{") THEN parse_object(q)
  ELSE IF has(q, "t") \/ has(q, "f") THEN parse_bool(q)
  ELSE IF has(q, "n") THEN parse_null(q)
  ELSE IF has(q, "-") \/ isdigit(peekc(q)) THEN parse_number(q)
  ELSE error(q, "expected value")

\* parse with parse_value for parse_object: any value is a root.
parse_any_root(q) == parse_value(skip_ws(q, TRUE))

\* parse that reads one character more once it has the root.
parse_then_next(q) ==
  Then(parse_object(skip_ws(q, TRUE)), LAMBDA r : [r EXCEPT !.p = nextc(r.p).p])

\* Both overloads: p.skip_ws(true); return parse_object(p);
parse(q) == parse_object(skip_ws(q, TRUE))


(***************************************************************************)
(* The texts the producers are built on                                    *)
(***************************************************************************)

\* The most members the root object of a generated document has.
MaxMembers == 2

\* The longest text over the number alphabet, and over the string alphabet.
MaxNumLen == 4

MaxStrLen == 5

Quoted(s) == <<"\"">> \o s \o <<"\"">>

Keys == {<<"a">>, <<"b">>}

\* The texts of the values that stand alone as a root.
ValueTexts ==
  { <<"1">>, <<"4", "2">>, Quoted(<<"b">>), <<"t", "r", "u", "e">>,
    <<"f", "a", "l", "s", "e">>, <<"n", "u", "l", "l">>,
    <<"[", "]">>, <<"[", "1", ",", "2", ",", "3", "]">>, << >> }

\* The texts of the values of the members of a generated document.
MemberValueTexts ==
  { <<"1">>, Quoted(<<"b">>), <<"[", "1", ",", "2", "]">>,
    <<"{">> \o Quoted(<<"a">>) \o <<":", "1", "}">> }

MemberTexts(keys) == { Quoted(k) \o <<":">> \o v : k \in keys, v \in MemberValueTexts }

RECURSIVE MemberLists(_, _)
\* The comma-separated lists of exactly n members.
MemberLists(keys, n) ==
  IF n = 1 THEN MemberTexts(keys)
  ELSE { ms \o <<",">> \o m : ms \in MemberLists(keys, n - 1), m \in MemberTexts(keys) }

\* The object documents of at most MaxMembers members with these keys.
Docs(keys) ==
  { <<"{", "}">> } \cup
  { <<"{">> \o ms \o <<"}">> : ms \in UNION { MemberLists(keys, n) : n \in 1..MaxMembers } }

DocTexts == Docs(Keys)

InsertAt(s, i, w) == SubSeq(s, 1, i) \o w \o SubSeq(s, i + 1, Len(s))

DeleteAt(s, i) == SubSeq(s, 1, i - 1) \o SubSeq(s, i + 1, Len(s))

Gaps == { <<" ">>, <<"\n">>, <<"\t", "\r", "\n">> }

Tails == { <<" ">>, <<" ", "x">>, <<"x">>, <<"}">>, <<",", "1">>, <<"\n", "{", "}">> }

\* Documents, cut short, with one character missing, and texts whose root
\* is no object.
DocInputs ==
  DocTexts
  \cup UNION { { SubSeq(d, 1, i) : i \in 0..Len(d) } : d \in DocTexts }
  \cup UNION { { DeleteAt(d, i) : i \in 1..Len(d) } : d \in DocTexts }
  \cup { w \o v : w \in Gaps \cup { << >> }, v \in ValueTexts }

RECURSIVE Spread(_, _)
\* d with w after each of { [ : , } ] and before each of } ] (d has none of
\* them inside a string literal).
Spread(d, w) ==
  IF d = << >> THEN << >>
  ELSE (IF Head(d) \in {"}", "]"} THEN w ELSE << >>)
       \o <<Head(d)>>
       \o (IF Head(d) \in {"{", "[", ":", ",", "}", "]"} THEN w ELSE << >>)
       \o Spread(Tail(d), w)

\* Documents, with one run of whitespace put in anywhere, with whitespace
\* around every structural token, and followed by more text.
SpacedInputs ==
  Docs({<<"a">>})
  \cup UNION { { InsertAt(d, i, w) : i \in 0..Len(d), w \in Gaps } : d \in Docs({<<"a">>}) }
  \cup { Spread(d, w) : d \in Docs({<<"a">>}), w \in Gaps }
  \cup { d \o t : d \in Docs({<<"a">>}), t \in Tails }

RECURSIVE Texts(_, _)
\* The texts of at most n characters of the alphabet.
Texts(alphabet, n) ==
  IF n = 0 THEN { << >> }
  ELSE LET shorter == Texts(alphabet, n - 1) IN
       shorter \cup { Append(s, c) : s \in shorter, c \in alphabet }

NumInputs == Texts({"0", "1", "-", ".", "e", "+", "}"}, MaxNumLen)

StrInputs == Texts({"\"", "\\", " ", "a", "\n"}, MaxStrLen)

(***************************************************************************)
(* The state machine: a producer is constructed on a text, and one public  *)
(* production is called on it, which leaves the producer where it stopped. *)
(* out records the call: the production, where the producer stood when it  *)
(* was called, and the outcome.                                            *)
(***************************************************************************)

Fresh(q) ==
  [op |-> "none", from |-> At(q), st |-> "ok", val |-> NoVal, err |-> NoErr,
   members |-> << >>]

InitOn(inputs) ==
  \E src \in inputs, skip \in BOOLEAN :
    /\ p = Producer(src, skip)
    /\ out = Fresh(p)

Init == InitOn(DocInputs)

InitSpaced == InitOn(SpacedInputs)

InitNum == InitOn(NumInputs)

InitStr == InitOn(StrInputs)

Call(op, res) ==
  /\ out.op = "none"
  /\ p' = res.p
  /\ out' = [op |-> op, from |-> At(p), st |-> res.st, val |-> res.val, err |-> res.err,
             members |-> res.members]

Parse == Call("parse", parse(p))

ParseObject == Call("parse_object", parse_object(p))

ParseArray == Call("parse_array", parse_array(p))

ParseValue == Call("parse_value", parse_value(p))

ParseString == Call("parse_string", parse_string(p))

ParseNumber == Call("parse_number", parse_number(p))

ParseBool == Call("parse_bool", parse_bool(p))

ParseNull == Call("parse_null", parse_null(p))

Next ==
  \/ Parse
  \/ ParseObject
  \/ ParseArray
  \/ ParseValue
  \/ ParseString
  \/ ParseNumber
  \/ ParseBool
  \/ ParseNull

\* Producers on documents, on damaged documents and on other roots.
Spec == Init /\ [][Next]_vars

\* Producers on documents with whitespace put in or text after them.
SpecSpaced == InitSpaced /\ [][Next]_vars

\* Producers on every short text of the characters of numbers.
SpecNum == InitNum /\ [][Next]_vars

\* Producers on every short text of the characters of string literals.
SpecStr == InitStr /\ [][Next]_vars

(***************************************************************************)
(* What the claims are stated with                                         *)
(***************************************************************************)

\* The producer as it was given to the call that out records.
Given ==
  [src |-> p.src, pos |-> out.from.pos, line |-> out.from.line, col |-> out.from.col,
   skip |-> out.from.skip,
   edge |-> [pos |-> out.from.pos, line |-> out.from.line, col |-> out.from.col]]

Returned == out.op # "none" /\ out.st = "ok"

Failed == out.op # "none" /\ out.st = "throw"

IsParseError == Failed /\ out.err.kind = "parse_error"

RECURSIVE InLiteral(_, _, _)
\* For each character of s, whether it lies inside a string literal (after
\* an opening quote and before the quote that closes it; a backslash takes
\* the character after it with it).  mode is "out", "in" or "esc".
InLiteral(s, i, mode) ==
  IF i > Len(s) THEN << >>
  ELSE LET c == s[i] IN
       IF mode = "out" THEN <<FALSE>> \o InLiteral(s, i + 1, IF c = "\"" THEN "in" ELSE "out")
       ELSE IF mode = "esc" THEN <<TRUE>> \o InLiteral(s, i + 1, "in")
       ELSE IF c = "\"" THEN <<FALSE>> \o InLiteral(s, i + 1, "out")
       ELSE <<TRUE>> \o InLiteral(s, i + 1, IF c = "\\" THEN "esc" ELSE "in")

RECURSIVE Before(_, _)
\* The index of the nearest character before i that is no whitespace, or 0.
Before(s, i) == IF i <= 1 THEN 0 ELSE IF s[i - 1] \in WS THEN Before(s, i - 1) ELSE i - 1

RECURSIVE After(_, _)
\* The index of the nearest character after i that is no whitespace, or 0.
After(s, i) ==
  IF i >= Len(s) THEN 0 ELSE IF s[i + 1] \in WS THEN After(s, i + 1) ELSE i + 1

\* s[i] is whitespace outside the string literals that comes after one of
\* { [ : , } ] or before one of } ].
Between(s, lit, i) ==
  /\ s[i] \in WS
  /\ ~lit[i]
  /\ LET b == Before(s, i)
         a == After(s, i)
     IN \/ b > 0 /\ ~lit[b] /\ s[b] \in {"{", "[", ":", ",", "}", "]"}
        \/ a > 0 /\ ~lit[a] /\ s[a] \in {"}", "]"}

RECURSIVE Keep(_, _, _)
Keep(s, lit, i) ==
  IF i > Len(s) THEN << >>
  ELSE (IF Between(s, lit, i) THEN << >> ELSE <<s[i]>>) \o Keep(s, lit, i + 1)

\* s without the whitespace between its structural tokens.
Squeezed(s) == Keep(s, InLiteral(s, 1, "out"), 1)

\* C1: whitespace between structural tokens is insignificant: when parse
\* accepts a text without whitespace after { [ : , and around } ], it accepts
\* the text with that whitespace put in, and returns the same value tree.
C1_WhitespaceInsignificant ==
  out.op = "parse" =>
    LET d == parse(Producer(Squeezed(p.src), out.from.skip)) IN
    d.st = "ok" => out.st = "ok" /\ out.val = d.val

\* parse has returned the object of { "a" : 1 }-like text: whitespace after
\* the '{' and after a ':' of a document with a member.
C1_Witness ==
  /\ out.op = "parse"
  /\ out.st = "ok"
  /\ out.val.obj # EmptyObj
  /\ \E i \in 2..Len(p.src) : p.src[i] \in WS /\ p.src[i - 1] = ":"
  /\ Squeezed(p.src) # p.src

\* C2: the line and column of a ParseError are those of the offending
\* character: the position of the producer at the failure, before the drain
\* and before anything more is consumed.
C2_ErrorPointsAtOffender ==
  IsParseError =>
    /\ out.err.what_[1] = ToString(out.err.seen.line)
    /\ out.err.what_[3] = ToString(out.err.seen.col)

\* C3: whenever a ParseError is raised the producer has been drained to
\* end-of-stream and the message ends with until_eof="<R>", R the characters
\* that were not consumed (the newline that closes what_ is let through).
C3_EveryParseErrorDrains ==
  IsParseError =>
    /\ AtEnd(p)
    /\ \E i \in 1..Len(out.err.what_) : out.err.what_[i] = "until_eof=\""

IsExpectedNumber == IsParseError /\ out.err.what_[5] = "expected number"

\* The text after an optional '-'.
Unsigned(s) == IF s # << >> /\ Head(s) = "-" THEN Tail(s) ELSE s

RECURSIVE DigitRun(_, _)
\* The index of the first character of s at or after i that is no digit.
DigitRun(s, i) == IF i <= Len(s) /\ isdigit(s[i]) THEN DigitRun(s, i + 1) ELSE i

\* C4: parse_number fails with "expected number" on a '0' followed by a
\* digit, on a text that starts with no digit, and on a '.' that no digit
\* follows (each after an optional '-'); on "0" it returns 0.
C4_NumberRejectsMalformed ==
  out.op = "parse_number" =>
    LET u == Unsigned(p.src)
        dot == IF u # << >> /\ u[1] = "0" THEN 2 ELSE DigitRun(u, 1)
    IN /\ (Len(u) >= 2 /\ u[1] = "0" /\ isdigit(u[2]) => IsExpectedNumber)
       /\ (u = << >> \/ ~isdigit(u[1]) => IsExpectedNumber)
       /\ (/\ u # << >> /\ isdigit(u[1])
           /\ dot <= Len(u) /\ u[dot] = "."
           /\ (dot = Len(u) \/ ~isdigit(u[dot + 1]))
           => IsExpectedNumber)
       /\ (p.src = <<"0">> => out.st = "ok" /\ out.val = Zero(FALSE))

\* C5: every failure of a production is a ParseError (the failure of the
\* producer at end-of-stream, which section 7 counts with them, is let
\* through): a production that returns no value has raised a ParseError.
C5_EveryFailureIsParseError ==
  Failed => out.err.kind \in {"parse_error", "end_of_stream"}

RECURSIVE Closing(_, _)
\* The index of the first quote of s at or after i that no backslash
\* escapes, or 0.
Closing(s, i) ==
  IF i > Len(s) THEN 0
  ELSE IF s[i] = "\"" THEN i
  ELSE IF s[i] = "\\" THEN Closing(s, i + 2)
  ELSE Closing(s, i + 1)

RECURSIVE Unescaped(_)
\* s with each backslash dropped and the character after it kept.
Unescaped(s) ==
  IF s = << >> THEN << >>
  ELSE IF Head(s) = "\\"
    THEN (IF Len(s) >= 2 THEN <<s[2]>> \o Unescaped(SubSeq(s, 3, Len(s))) ELSE << >>)
  ELSE <<Head(s)>> \o Unescaped(Tail(s))

C7_RootMustBeObject ==
  out.op = "parse" =>
    LET t == SkipRun(Given) IN
    AtEnd(t) \/ t.src[t.pos] # "{" => Failed /\ out.val = NoVal

\* parse has failed on [1,2,3].
C7_Witness ==
  /\ out.op = "parse"
  /\ Failed
  /\ p.src = <<"[", "1", ",", "2", ",", "3", "]">>

\* The index of the last member of ms with the key k.
LastOf(ms, k) ==
  CHOOSE i \in DOMAIN ms : ms[i].key = k /\ \A j \in DOMAIN ms : j > i => ms[j].key # k

\* C8: an object that was parsed holds each key of its text once, with the
\* value of the last member of the text that has the key; it has as many
\* keys as the text has distinct keys.
C8_LastWriteWins ==
  Returned /\ out.val.t = "obj" =>
    LET ms == out.members
        o == out.val.obj
        keys == { ms[i].key : i \in DOMAIN ms }
    IN /\ DOMAIN o = keys
       /\ Cardinality(DOMAIN o) = Cardinality(keys)
       /\ \A k \in keys : o[k] = ms[LastOf(ms, k)].val

\* parse has returned the object of a text whose first two members have the
\* same key and different values.
C8_Witness ==
  /\ out.op = "parse"
  /\ Returned
  /\ Len(out.members) >= 2
  /\ out.members[1].key = out.members[2].key
  /\ out.members[1].val # out.members[2].val
  /\ Len(out.members) = 2 => out.val.obj[out.members[1].key] = out.members[2].val

\* C9: every call ends: it returns a value or raises a failure, and no loop
\* of it runs for more iterations than the text has characters (and one).
C9_ParsingTerminates == out.op # "none" => out.st \in {"ok", "throw"}

\* parse has failed at the end of a text that stops inside a string literal.
C9_Witness ==
  /\ out.op = "parse"
  /\ Failed
  /\ AtEnd(p)
  /\ Len(p.src) = 3
  /\ SubSeq(p.src, 1, 2) = <<"{", "\"">>
  /\ p.src[3] \notin {"\"", "\\"}

\* The prefixes of the text that are documents: k is the index of a '}' up
\* to which parse accepts the text and consumes all of it.
IsDocument(k) ==
  /\ p.src[k] = "}"
  /\ parse(Producer(SubSeq(p.src, 1, k), out.from.skip)).st = "ok"
  /\ parse(Producer(SubSeq(p.src, 1, k), out.from.skip)).p.pos = k + 1

\* C10, as claimed: parse does not consume what follows the root object.
\* On a document D followed by T, parse succeeds, returns the object of D,
\* and leaves the producer right after the '}' that closes the root, every
\* character of T unconsumed.
C10_NothingAfterRootConsumed ==
  out.op = "parse" =>
    \A k \in 1..Len(p.src) :
      IsDocument(k) =>
        /\ out.st = "ok"
        /\ out.val = parse(Producer(SubSeq(p.src, 1, k), out.from.skip)).val
        /\ p.pos = k + 1

\* C10, amended: parse does not validate what follows the root object and
\* consumes none of it but whitespace.  On a document D followed by T, parse
\* succeeds, returns the object of D, and has consumed of T at most the
\* whitespace T begins with: from its first character that is no whitespace
\* on, T is unconsumed, and nothing need follow the root.
C10_OnlyWhitespaceAfterRootConsumed ==
  out.op = "parse" =>
    \A k \in 1..Len(p.src) :
      IsDocument(k) =>
        /\ out.st = "ok"
        /\ out.val = parse(Producer(SubSeq(p.src, 1, k), out.from.skip)).val
        /\ p.pos >= k + 1
        /\ \A i \in (k + 1)..(p.pos - 1) : p.src[i] \in WS

\* parse has returned on a document followed by whitespace and more text:
\* the producer stands past the whitespace, at the text.
C10_Witness ==
  /\ out.op = "parse"
  /\ Returned
  /\ p.pos >= 3
  /\ p.pos <= Len(p.src)
  /\ IsDocument(p.pos - 2)
  /\ p.src[p.pos - 1] \in WS
  /\ p.src[p.pos] \notin WS

====
